---- MODULE Spec2Model ----
(***************************************************************************)
(* A model of the two scripts of eng-nonce-words.                          *)
(*                                                                         *)
(*   generate.py  enumerates the monosyllable and disyllable candidates,   *)
(*                drops the phonologically excluded and the lexical ones   *)
(*                and writes the rest to two tables.                       *)
(*   stratify.py  groups the rows of the two tables by category, shuffles  *)
(*                every group and deals quota-sized chunks to 16 lists.    *)
(*                                                                         *)
(* TLA+ strings are ASCII, so the IPA symbols of the source are written    *)
(* one character for one character:                                        *)
(*     N = eng (velar nasal)   R = turned r     : = length mark            *)
(*     I = small capital i     U = upsilon      E = epsilon                *)
(*     & = ash                 A = script a                                *)
(* The mapping is injective on characters, so string concatenation and     *)
(* string equality behave as they do on the source's strings.              *)
(***************************************************************************)
EXTENDS Integers, Sequences, FiniteSets, TLC

VARIABLES
    \* generate.main
    lexicon,    \* the set of transcriptions read before the two loops
    gpc,        \* "mono", "di" or "done": which loop of main is running
    gi,         \* position of the next candidate in the running generator
    entry,      \* the loop variable: the candidate handled by the last step
    outcome,    \* what the last step did with entry
    filtered,   \* the counter `filtered` of the running loop
    logged,     \* number of logging.info calls made so far
    lastLog,    \* the last logging.info call: its text and the transcription
                \* interpolated into it ("" when there is none)
    nrows,      \* data rows written to the file that is open
    lastRow,    \* the last row handed to tsv_writer.writerow
    \* stratify.main
    input,      \* what the two input tables hold (fixed during a behaviour)
    run,        \* 1 in the first run of the program, 2 in the second
    prev,       \* the output files and the failure the first run ended with
    spc,        \* the place main has reached
    rng,        \* the state of the generator of the module `random`
    row,        \* the loop variable `row` of the two reading loops
    by_shape,   \* the groups, in the order their keys were first seen
    gnext,      \* position in by_shape.items() of the group to handle next
    shape,      \* the loop variable `shape`
    elist,      \* the loop variable `elist`
    lsts,       \* the N_LISTS lists
    lnext,      \* position in lsts of the list to shuffle or to write next
    files,      \* the N_LISTS output files on disk
    failure     \* the exception that ended the run, <<>> when there is none

gvars == <<lexicon, gpc, gi, entry, outcome, filtered, logged, lastLog,
           nrows, lastRow>>

svars == <<input, run, prev, spc, rng, row, by_shape, gnext, shape, elist,
           lsts, lnext, files, failure>>

vars == <<gvars, svars>>

\* The values the variables of one script keep while the other is modelled.
GenerateIdle ==
    /\ lexicon = {} /\ gpc = "idle" /\ gi = 0 /\ entry = [kind |-> "none"]
    /\ outcome = "idle" /\ filtered = 0 /\ logged = 0
    /\ lastLog = [subject |-> "", text |-> ""]
    /\ nrows = 0 /\ lastRow = <<>>

StratifyIdle ==
    /\ input = <<>> /\ run = 0 /\ prev = <<>> /\ spc = "idle" /\ rng = 0
    /\ row = <<>> /\ by_shape = <<>> /\ gnext = 0 /\ shape = ""
    /\ elist = <<>> /\ lsts = <<>> /\ lnext = 0 /\ files = <<>>
    /\ failure = <<>>

-----------------------------------------------------------------------------
(* Helpers for Python's lists *)

RECURSIVE Concat(_)
\* The yields of the iterations of a loop, one after the other.
Concat(ss) == IF ss = <<>> THEN <<>> ELSE Head(ss) \o Concat(Tail(ss))

\* x in lst
In(x, lst) == \E i \in 1..Len(lst) : lst[i] = x

-----------------------------------------------------------------------------
(* generate.py: the inventories *)

VOICELESS_STOPS == <<"p", "t", "k">>
VOICED_STOPS == <<"b", "d", "g">>
STOPS == VOICELESS_STOPS \o VOICED_STOPS
STOPS_PLUS_S == STOPS \o <<"s">>
NASALS == <<"m", "n">>
SIMPLE_ONSETS == STOPS \o NASALS
SIMPLE_ONSETS_PLUS_S == STOPS \o NASALS \o <<"s">>

TENSE_NUCLEI == <<"i:", "u:", "eI", "oU", "A", "aI", "aU">>
LAX_NUCLEI == <<"I", "U", "E", "&">>
NUCLEI == TENSE_NUCLEI \o LAX_NUCLEI

NASAL_CODAS == <<"m", "n", "N">>
STOP_CODAS == <<"p", "t", "k">>
SIMPLE_CODAS == NASAL_CODAS \o STOP_CODAS
SIMPLE_CODAS_PLUS_S == SIMPLE_CODAS \o <<"s">>

PLACE == [seg \in {"p", "t", "k", "b", "d", "g", "s", "m", "n", "N"} |->
            CASE seg \in {"p", "b", "m"} -> "labial"
              [] seg \in {"t", "d", "s", "n"} -> "coronal"
              [] seg \in {"k", "g", "N"} -> "velar"]

-----------------------------------------------------------------------------
(* generate.py: the two dataclasses *)

Monosyllable(onset, nucleus, coda, shape_tag) ==
    [onset |-> onset, nucleus |-> nucleus, coda |-> coda, shape |-> shape_tag]

transcription(m) == m.onset \o m.nucleus \o m.coda

Monosyllable_line(m) ==
    <<m.onset, m.nucleus, m.coda, "", "", "", m.shape, "", transcription(m)>>

Disyllable(syl1, syl2) == [syl1 |-> syl1, syl2 |-> syl2]

Disyllable_shape(d) == d.syl1.shape \o "." \o d.syl2.shape

\* PLACE[x] raises KeyError for a segment the table does not hold.
syllable_contact_code_s(d) ==
    LET coda == d.syl1.coda
        onset == d.syl2.onset
        coda_coding == coda = "s" \/ In(coda, VOICELESS_STOPS)
        onset_coding == In(onset, VOICELESS_STOPS)
    IN  IF In(coda, NASAL_CODAS)
        THEN IF coda \notin DOMAIN PLACE \/ onset \notin DOMAIN PLACE
             THEN "KeyError"
             ELSE IF PLACE[coda] = PLACE[onset] THEN "+NPA" ELSE "-NPA"
        ELSE IF coda_coding = onset_coding THEN "+OVA" ELSE "-OVA"

syllable_contact_code(d) ==
    LET coda == d.syl1.coda
        onset == d.syl2.onset
        coda_coding == coda = "s" \/ In(coda, VOICELESS_STOPS)
        onset_coding == onset = "s" \/ In(onset, VOICELESS_STOPS)
    IN  IF In(coda, NASAL_CODAS)
        THEN IF coda \notin DOMAIN PLACE \/ onset \notin DOMAIN PLACE
             THEN "KeyError"
             ELSE IF PLACE[coda] = PLACE[onset] THEN "+NPA" ELSE "-NPA"
        ELSE IF coda_coding = onset_coding THEN "+OVA" ELSE "-OVA"

Disyllable_transcription(d) == transcription(d.syl1) \o transcription(d.syl2)

Disyllable_line(d) ==
    <<d.syl1.onset, d.syl1.nucleus, d.syl1.coda,
      d.syl2.onset, d.syl2.nucleus, d.syl2.coda,
      Disyllable_shape(d), syllable_contact_code(d),
      Disyllable_transcription(d)>>

borowsky_test(monosyllable) ==
    In(monosyllable.nucleus, TENSE_NUCLEI) /\ monosyllable.coda = "N"

npa_test(disyllable) ==
    disyllable.syl1.coda = "n" /\ In(disyllable.syl2.onset, <<"k", "g">>)

-----------------------------------------------------------------------------
(* generate.py: the two generators, as the sequences of their yields *)

\* The guard `if onset == coda: continue` of the CVC loop, left out.
cvc_skip_never(onset, coda) == FALSE

cvc_skip(onset, coda) == onset = coda

monosyllables_cvc ==
    Concat([o \in 1..Len(SIMPLE_ONSETS_PLUS_S) |->
     Concat([n \in 1..Len(NUCLEI) |->
      Concat([c \in 1..Len(SIMPLE_CODAS_PLUS_S) |->
        LET onset == SIMPLE_ONSETS_PLUS_S[o]
            nucleus == NUCLEI[n]
            coda == SIMPLE_CODAS_PLUS_S[c]
        IN  IF cvc_skip(onset, coda) THEN <<>>
            ELSE <<Monosyllable(onset, nucleus, coda, "CVC")>>])])])

monosyllables_scvc ==
    Concat([s \in 1..Len(VOICELESS_STOPS) |->
     Concat([n \in 1..Len(NUCLEI) |->
      Concat([c \in 1..Len(SIMPLE_CODAS) |->
        LET stop == VOICELESS_STOPS[s]
            onset == "s" \o stop
            nucleus == NUCLEI[n]
            coda == SIMPLE_CODAS[c]
        IN  IF stop = coda THEN <<>>
            ELSE <<Monosyllable(onset, nucleus, coda, "sCVC")>>])])])

monosyllables_cwvc ==
    Concat([s \in 1..Len(STOPS) |->
     Concat([n \in 1..Len(LAX_NUCLEI) |->
      Concat([c \in 1..Len(SIMPLE_CODAS_PLUS_S) |->
        LET stop == STOPS[s]
            onset == stop \o "w"
            nucleus == LAX_NUCLEI[n]
            coda == SIMPLE_CODAS_PLUS_S[c]
        IN  IF stop = coda THEN <<>>
            ELSE <<Monosyllable(onset, nucleus, coda, "CwVC")>>])])])

monosyllables_tliquid ==
    Concat([s \in 1..2 |->
     Concat([n \in 1..Len(NUCLEI) |->
      Concat([c \in 1..Len(SIMPLE_CODAS_PLUS_S) |->
        LET stop == <<"t", "d">>[s]
            nucleus == NUCLEI[n]
            coda == SIMPLE_CODAS_PLUS_S[c]
        IN  IF stop = coda THEN <<>>
            ELSE <<Monosyllable(stop \o "l", nucleus, coda, "TlVC"),
                   Monosyllable(stop \o "R", nucleus, coda, "TRVC")>>])])])

monosyllables_nasal ==
    Concat([s \in 1..Len(STOPS) |->
     Concat([c \in 1..Len(STOP_CODAS) |->
        LET stop == STOPS[s]
            coda == STOP_CODAS[c]
        IN  IF stop = coda THEN <<>>
            ELSE Concat([m \in 1..Len(NASALS) |->
                  Concat([n \in 1..Len(NUCLEI) |->
                    LET nasal == NASALS[m]
                        nucleus == NUCLEI[n]
                    IN <<Monosyllable(stop \o nasal, nucleus, coda, "CNVC"),
                         Monosyllable(nasal \o stop, nucleus, coda, "NCVC")>>
                  ])])])])

monosyllables ==
    monosyllables_cvc \o monosyllables_scvc \o monosyllables_cwvc
        \o monosyllables_tliquid \o monosyllables_nasal

\* itertools.permutations(LAX_NUCLEI, 2): ordered pairs of distinct positions.
permutations2(lst) ==
    Concat([i \in 1..Len(lst) |->
     Concat([j \in 1..Len(lst) |->
        IF i = j THEN <<>> ELSE << <<lst[i], lst[j]>> >>])])

disyllables_cvc(nucleus1, nucleus2) ==
    Concat([o \in 1..Len(SIMPLE_ONSETS_PLUS_S) |->
     Concat([c \in 1..Len(SIMPLE_CODAS_PLUS_S) |->
        LET onset1 == SIMPLE_ONSETS_PLUS_S[o]
            coda1 == SIMPLE_CODAS_PLUS_S[c]
            syl1 == Monosyllable(onset1, nucleus1, coda1, "CVC")
        IN  IF onset1 = coda1 THEN <<>>
            ELSE Concat([p \in 1..Len(STOPS_PLUS_S) |->
                  LET onset2 == STOPS_PLUS_S[p]
                  IN  IF onset1 = onset2 \/ coda1 = onset2 THEN <<>>
                      ELSE Concat([q \in 1..Len(SIMPLE_CODAS_PLUS_S) |->
                            LET coda2 == SIMPLE_CODAS_PLUS_S[q]
                                syl2 == Monosyllable(onset2, nucleus2, coda2,
                                                     "CVC")
                            IN  IF coda1 = coda2 THEN <<>>
                                ELSE <<Disyllable(syl1, syl2)>>])])])])

disyllables_tliquid(nucleus1, nucleus2) ==
    Concat([s \in 1..2 |->
     Concat([c \in 1..Len(SIMPLE_CODAS_PLUS_S) |->
        LET stop1 == <<"t", "d">>[s]
            coda1 == SIMPLE_CODAS_PLUS_S[c]
            syls1 == <<Monosyllable(stop1 \o "l", nucleus1, coda1, "TlVC"),
                       Monosyllable(stop1 \o "R", nucleus1, coda1, "TRVC")>>
        IN  IF stop1 = coda1 THEN <<>>
            ELSE Concat([p \in 1..Len(STOPS_PLUS_S) |->
                  LET onset2 == STOPS_PLUS_S[p]
                  IN  IF stop1 = onset2 \/ coda1 = onset2 THEN <<>>
                      ELSE Concat([q \in 1..Len(SIMPLE_CODAS_PLUS_S) |->
                            LET coda2 == SIMPLE_CODAS_PLUS_S[q]
                                syl2 == Monosyllable(onset2, nucleus2, coda2,
                                                     "CVC")
                            IN  IF coda1 = coda2 THEN <<>>
                                ELSE [k \in 1..2 |->
                                        Disyllable(syls1[k], syl2)]])])])])

disyllables ==
    LET pairs == permutations2(LAX_NUCLEI)
    IN  Concat([k \in 1..Len(pairs) |->
            disyllables_cvc(pairs[k][1], pairs[k][2])
                \o disyllables_tliquid(pairs[k][1], pairs[k][2])])

-----------------------------------------------------------------------------
(* generate.py: main *)

COLUMNS ==
    <<"onset1", "nucleus1", "coda1", "onset2", "nucleus2", "coda2",
      "shape", "syllable.contact.code", "transcription">>

\* Strings the lexicon of a run is drawn from: a CVC candidate, a candidate
\* with a tense nucleus before the velar nasal, a first syllable that also
\* occurs before a velar onset, a second syllable with onset = coda, a whole
\* disyllable, and a word no candidate matches.
LexPool == {"k&t", "pi:N", "pIn", "tUt", "pImtUp", "strIN"}

MaxLexicon == 1

Lexicons == {lex \in SUBSET LexPool : Cardinality(lex) <= MaxLexicon}

\* The format specification `:,` of the f-strings, for the counts that occur.
FormatThousands(n) ==
    IF n < 1000 THEN ToString(n)
    ELSE LET r == n % 1000
             pad == IF r < 10 THEN "00" ELSE IF r < 100 THEN "0" ELSE ""
         IN  ToString(n \div 1000) \o "," \o pad \o ToString(r)

LogRecord(subject, text) == [subject |-> subject, text |-> text]

NoEntry == [kind |-> "none"]
MonoEntry(m) == [kind |-> "mono", syl |-> m]
DiEntry(d) == [kind |-> "di", syl1 |-> d.syl1, syl2 |-> d.syl2]

\* The lexical test of the disyllable loop with the two syllables forgotten.
is_lexical_di_whole(d, lex) == Disyllable_transcription(d) \in lex

is_lexical_mono(m, lex) == transcription(m) \in lex

is_lexical_di(d, lex) ==
    \E part \in {transcription(d.syl1), transcription(d.syl2),
                 Disyllable_transcription(d)} : part \in lex

InitGen ==
    /\ lexicon \in Lexicons
    /\ gpc = "mono"
    /\ gi = 1
    /\ entry = NoEntry
    /\ outcome = "opened"
    /\ filtered = 0
    /\ logged = 1
    /\ lastLog = LogRecord("", FormatThousands(Cardinality(lexicon))
                                \o " lexicon entries")
    /\ nrows = 0
    /\ lastRow = COLUMNS
    /\ StratifyIdle

\* One iteration of `for entry in _monosyllables()`.
MonoBorowsky ==
    /\ gpc = "mono" /\ gi <= Len(monosyllables)
    /\ borowsky_test(monosyllables[gi])
    /\ entry' = MonoEntry(monosyllables[gi])
    /\ outcome' = "borowsky"
    /\ gi' = gi + 1
    /\ UNCHANGED <<lexicon, gpc, filtered, logged, lastLog, nrows, lastRow>>
    /\ UNCHANGED svars

MonoLexical ==
    /\ gpc = "mono" /\ gi <= Len(monosyllables)
    /\ ~borowsky_test(monosyllables[gi])
    /\ is_lexical_mono(monosyllables[gi], lexicon)
    /\ entry' = MonoEntry(monosyllables[gi])
    /\ outcome' = "lexical"
    /\ lastLog' = LogRecord(transcription(monosyllables[gi]),
                            transcription(monosyllables[gi]) \o " is lexical")
    /\ logged' = logged + 1
    /\ filtered' = filtered + 1
    /\ gi' = gi + 1
    /\ UNCHANGED <<lexicon, gpc, nrows, lastRow>>
    /\ UNCHANGED svars

MonoWrite ==
    /\ gpc = "mono" /\ gi <= Len(monosyllables)
    /\ ~borowsky_test(monosyllables[gi])
    /\ ~is_lexical_mono(monosyllables[gi], lexicon)
    /\ entry' = MonoEntry(monosyllables[gi])
    /\ outcome' = "written"
    /\ lastRow' = Monosyllable_line(monosyllables[gi])
    /\ nrows' = nrows + 1
    /\ gi' = gi + 1
    /\ UNCHANGED <<lexicon, gpc, filtered, logged, lastLog>>
    /\ UNCHANGED svars

\* The generator is exhausted: the summary is logged, the second file is
\* opened, its header written and `filtered` set to 0 again.
MonoDone ==
    /\ gpc = "mono" /\ gi > Len(monosyllables)
    /\ lastLog' = LogRecord("", FormatThousands(filtered)
                                \o " monosyllables filtered")
    /\ logged' = logged + 1
    /\ gpc' = "di"
    /\ gi' = 1
    /\ outcome' = "opened"
    /\ lastRow' = COLUMNS
    /\ nrows' = 0
    /\ filtered' = 0
    /\ UNCHANGED <<lexicon, entry>>
    /\ UNCHANGED svars

\* One iteration of `for entry in _disyllables()`.
DiNpa ==
    /\ gpc = "di" /\ gi <= Len(disyllables)
    /\ npa_test(disyllables[gi])
    /\ entry' = DiEntry(disyllables[gi])
    /\ outcome' = "npa"
    /\ gi' = gi + 1
    /\ UNCHANGED <<lexicon, gpc, filtered, logged, lastLog, nrows, lastRow>>
    /\ UNCHANGED svars

DiLexical ==
    /\ gpc = "di" /\ gi <= Len(disyllables)
    /\ ~npa_test(disyllables[gi])
    /\ is_lexical_di(disyllables[gi], lexicon)
    /\ entry' = DiEntry(disyllables[gi])
    /\ outcome' = "lexical"
    /\ lastLog' = LogRecord(Disyllable_transcription(disyllables[gi]),
                            Disyllable_transcription(disyllables[gi])
                                \o " or subsyllable is lexical")
    /\ logged' = logged + 1
    /\ filtered' = filtered + 1
    /\ gi' = gi + 1
    /\ UNCHANGED <<lexicon, gpc, nrows, lastRow>>
    /\ UNCHANGED svars

DiWrite ==
    /\ gpc = "di" /\ gi <= Len(disyllables)
    /\ ~npa_test(disyllables[gi])
    /\ ~is_lexical_di(disyllables[gi], lexicon)
    /\ entry' = DiEntry(disyllables[gi])
    /\ outcome' = "written"
    /\ lastRow' = Disyllable_line(disyllables[gi])
    /\ nrows' = nrows + 1
    /\ gi' = gi + 1
    /\ UNCHANGED <<lexicon, gpc, filtered, logged, lastLog>>
    /\ UNCHANGED svars

DiDone ==
    /\ gpc = "di" /\ gi > Len(disyllables)
    /\ lastLog' = LogRecord("", FormatThousands(filtered)
                                \o " disyllables filtered")
    /\ logged' = logged + 1
    /\ gpc' = "done"
    /\ UNCHANGED <<lexicon, gi, entry, outcome, filtered, nrows, lastRow>>
    /\ UNCHANGED svars

NextGen ==
    \/ MonoBorowsky
    \/ MonoLexical
    \/ MonoWrite
    \/ MonoDone
    \/ DiNpa
    \/ DiLexical
    \/ DiWrite
    \/ DiDone

SpecGen == InitGen /\ [][NextGen]_vars

-----------------------------------------------------------------------------
(* Properties of generate.py *)

EntryTranscription(e) ==
    IF e.kind = "mono" THEN transcription(e.syl)
    ELSE Disyllable_transcription(e)

\* The candidate is dropped by the phonological test of its loop.
EntryExcluded(e) ==
    IF e.kind = "mono" THEN borowsky_test(e.syl) ELSE npa_test(e)

\* The candidate's transcription, or that of one of its syllables, is in lex.
EntryCollides(e, lex) ==
    IF e.kind = "mono" THEN transcription(e.syl) \in lex
    ELSE \/ Disyllable_transcription(e) \in lex
         \/ transcription(e.syl1) \in lex
         \/ transcription(e.syl2) \in lex

\* The same test on a row of an output table (onset2 is empty in the rows
\* of monosyllables).
RowCollides(r, lex) ==
    \/ r[9] \in lex
    \/ /\ r[4] # ""
       /\ \/ (r[1] \o r[2] \o r[3]) \in lex
          \/ (r[4] \o r[5] \o r[6]) \in lex

\* A step of one of the two loops: one candidate was taken from a generator.
CandidateStep == gi' = gi + 1

Segments == {"p", "t", "k", "b", "d", "g", "s", "m", "n", "N", "w", "l", "R"}

\* The stop of a cluster onset is the coda: the onset is the coda with the
\* other segment of the cluster before or after it.
StopOfClusterIs(m) ==
    CASE m.shape = "CVC" -> FALSE
      [] m.shape \in {"sCVC", "NCVC"} ->
            \E x \in Segments : m.onset = x \o m.coda
      [] m.shape \in {"CwVC", "TlVC", "TRVC", "CNVC"} ->
            \E x \in Segments : m.onset = m.coda \o x

\* C7: every monosyllable the generator yields has onset # coda, and in the
\* families with a cluster onset the stop of the cluster differs from the
\* coda as well.
C7_OnsetDiffersFromCoda ==
    entry.kind = "mono" =>
        /\ entry.syl.shape \in
            {"CVC", "sCVC", "CwVC", "TlVC", "TRVC", "CNVC", "NCVC"}
        /\ entry.syl.onset # entry.syl.coda
        /\ ~StopOfClusterIs(entry.syl)

\* Candidates of a simple and of a cluster family whose onset and coda could
\* have met: k..p (CVC) and pm..t (CNVC) have been yielded.
C7_Witness ==
    /\ entry.kind = "mono"
    /\ entry.syl.shape = "CNVC"
    /\ entry.syl.onset = "pm"
    /\ entry.syl.coda = "t"

ContactCodes == {"+NPA", "-NPA", "+OVA", "-OVA"}

PlaceClass(seg) ==
    CASE seg \in {"p", "b", "m"} -> "labial"
      [] seg \in {"t", "d", "s", "n"} -> "coronal"
      [] seg \in {"k", "g", "N"} -> "velar"
      [] OTHER -> "unmapped"

\* The code the classification rule gives to a coda and a following onset.
ExpectedContact(coda, onset) ==
    IF coda \in {"m", "n", "N"}
    THEN IF PlaceClass(coda) = PlaceClass(onset) THEN "+NPA" ELSE "-NPA"
    ELSE IF (coda \in {"s", "p", "t", "k"}) = (onset \in {"s", "p", "t", "k"})
         THEN "+OVA" ELSE "-OVA"

\* C8: for every disyllable the generator yields, the place table holds both
\* segments, and the contact code is the one of the four that the rule gives
\* to (syl1.coda, syl2.onset).
C8_ContactCodeTotal ==
    entry.kind = "di" =>
        /\ entry.syl1.coda \in DOMAIN PLACE
        /\ entry.syl2.onset \in DOMAIN PLACE
        /\ syllable_contact_code(entry) \in ContactCodes
        /\ syllable_contact_code(entry)
            = ExpectedContact(entry.syl1.coda, entry.syl2.onset)

\* A disyllable with a velar nasal before g has been yielded and coded +NPA.
C8_Witness ==
    /\ entry.kind = "di"
    /\ entry.syl1.coda = "N"
    /\ entry.syl2.onset = "g"
    /\ outcome = "written"
    /\ lastRow[8] = "+NPA"

\* C9: every candidate main drops, for a phonological reason or for a
\* lexical collision, is the subject of the last log message and is counted
\* in `filtered`: the count is the number of candidates taken so far less the
\* rows written.
C9_EveryRejectionLoggedAndCounted ==
    outcome \in {"borowsky", "npa", "lexical"} =>
        /\ lastLog.subject = EntryTranscription(entry)
        /\ filtered = (gi - 1) - nrows

\* C10: both syllables of every disyllable the generator yields have
\* onset # coda, beside the exclusions across the syllable boundary.
C10_SyllablesKeepInvariant ==
    entry.kind = "di" =>
        /\ entry.syl1.onset # entry.syl1.coda
        /\ entry.syl2.onset # entry.syl2.coda
        /\ entry.syl1.coda # entry.syl2.onset
        /\ entry.syl1.coda # entry.syl2.coda
        /\ entry.syl1.onset # entry.syl2.onset

-----------------------------------------------------------------------------
(* stratify.py: the rows of the input tables *)

\* The categories generate.py writes: shape and syllable contact code.  The
\* first seven are in monosyllables.tsv, the others in disyllables.tsv; the
\* last four have no size in stratify.py.
Categories ==
    << [shape |-> "CVC", scc |-> ""],
       [shape |-> "sCVC", scc |-> ""],
       [shape |-> "CwVC", scc |-> ""],
       [shape |-> "TlVC", scc |-> ""],
       [shape |-> "TRVC", scc |-> ""],
       [shape |-> "CNVC", scc |-> ""],
       [shape |-> "NCVC", scc |-> ""],
       [shape |-> "CVC.CVC", scc |-> "+OVA"],
       [shape |-> "CVC.CVC", scc |-> "+NPA"],
       [shape |-> "CVC.CVC", scc |-> "-OVA"],
       [shape |-> "CVC.CVC", scc |-> "-NPA"],
       [shape |-> "TRVC.CVC", scc |-> "+OVA"],
       [shape |-> "TRVC.CVC", scc |-> "+NPA"],
       [shape |-> "TlVC.CVC", scc |-> "-OVA"],
       [shape |-> "TlVC.CVC", scc |-> "-NPA"],
       [shape |-> "TlVC.CVC", scc |-> "+OVA"],
       [shape |-> "TlVC.CVC", scc |-> "+NPA"],
       [shape |-> "TRVC.CVC", scc |-> "-OVA"],
       [shape |-> "TRVC.CVC", scc |-> "-NPA"] >>

\* A row is written as one number, 100 * c + k: the k-th transcription of
\* category c.  Two rows are the same number exactly when they agree in
\* every column.
RowOf(c, k) == 100 * c + k
CategoryOf(r) == r \div 100

\* row[column], for the two columns stratify.py reads.
row_get(r, column) ==
    IF column = "shape" THEN Categories[CategoryOf(r)].shape
    ELSE Categories[CategoryOf(r)].scc

-----------------------------------------------------------------------------
(* stratify.py: constants and helpers *)

SEED == 1568

N_LISTS == 16

\* _proc_file: the key of a row is its shape, followed by ", " and the
\* syllable contact code when the row has one.
proc_file_key(r) ==
    LET key == row_get(r, "shape")
        scc == row_get(r, "syllable.contact.code")
    IN  IF scc # "" THEN key \o ", " \o scc ELSE key

\* The chain of comparisons of main, with two of its sizes exchanged.
quota_exchanged(key) ==
    CASE key = "CVC" -> 4
      [] key = "sCVC" -> 5
      [] key = "CwVC" -> 4
      [] key = "TRVC" -> 2
      [] key = "TlVC" -> 5
      [] key = "NCVC" -> 5
      [] key = "CNVC" -> 5
      [] key = "CVC.CVC, +OVA" -> 5
      [] key = "CVC.CVC, +NPA" -> 4
      [] key = "TRVC.CVC, +OVA" -> 3
      [] key = "TRVC.CVC, +NPA" -> 3
      [] key = "CVC.CVC, -OVA" -> 4
      [] key = "CVC.CVC, -NPA" -> 4
      [] key = "TlVC.CVC, -OVA" -> 4
      [] key = "TlVC.CVC, -NPA" -> 3
      [] OTHER -> 0

\* The chain of comparisons of main: the size of a key, and 0 for the keys
\* of the final `else: continue`.
quota(key) ==
    CASE key = "CVC" -> 5
      [] key = "sCVC" -> 4
      [] key = "CwVC" -> 4
      [] key = "TRVC" -> 2
      [] key = "TlVC" -> 5
      [] key = "NCVC" -> 5
      [] key = "CNVC" -> 5
      [] key = "CVC.CVC, +OVA" -> 5
      [] key = "CVC.CVC, +NPA" -> 4
      [] key = "TRVC.CVC, +OVA" -> 3
      [] key = "TRVC.CVC, +NPA" -> 3
      [] key = "CVC.CVC, -OVA" -> 4
      [] key = "CVC.CVC, -NPA" -> 4
      [] key = "TlVC.CVC, -OVA" -> 4
      [] key = "TlVC.CVC, -NPA" -> 3
      [] OTHER -> 0

\* lst[start : stop] of Python, positions counted from 0: the slice is
\* clamped to the list.
Slice(lst, start, stop) ==
    SubSeq(lst, start + 1, IF stop < Len(lst) THEN stop ELSE Len(lst))

\* _chunks with every chunk starting one element early.
chunks_overlapping(lst, size, chunks) ==
    [chunk \in 1..chunks |->
        LET start == (size - 1) * (chunk - 1)
        IN  Slice(lst, start, start + size)]

\* _chunks: the sequence of the slices it yields.
chunks_of(lst, size, chunks) ==
    [chunk \in 1..chunks |->
        LET start == size * (chunk - 1)
        IN  Slice(lst, start, start + size)]

-----------------------------------------------------------------------------
(* The module `random`: a seeded generator and the shuffle it drives.     *)
(* The library is not part of the repository.  Its generator is modelled  *)
(* as a fixed function of its state: a draw returns a number below n and  *)
(* the next state.                                                        *)

\* The state of the generator when the process starts: the library seeds
\* it from the operating system, differently in every process.
Entropy(r) == 1 + 4099 * r

\* random.seed(SEED) left out: the generator keeps the state it started in.
random_seed_missing(old) == old

\* random.seed(SEED): the state depends on the seed alone.
random_seed(old) == SEED

random_step(state) == (75 * state + 74) % 65537

randbelow(state, n) == random_step(state) % n

RECURSIVE shuffle_range(_, _, _)
\* The iterations i = hi, hi - 1, ..., lo (positions counted from 1) of the
\* loop of random.shuffle: x[i] is exchanged with x[j] for a drawn j <= i.
\* The range is halved so that the evaluation stays shallow; the upper half
\* runs first and hands its list and generator state to the lower half.
shuffle_range(st, lo, hi) ==
    IF lo > hi THEN st
    ELSE IF lo = hi
    THEN LET j == randbelow(st.rng, hi) + 1
         IN  [x |-> [st.x EXCEPT ![hi] = st.x[j], ![j] = st.x[hi]],
              rng |-> random_step(st.rng)]
    ELSE LET mid == (lo + hi) \div 2
             upper == shuffle_range(st, mid + 1, hi)
         IN  IF Len(upper.x) = Len(st.x)
             THEN shuffle_range(upper, lo, mid)
             ELSE upper

\* random.shuffle(x): for i in reversed(range(1, len(x))).
random_shuffle(x, state) == shuffle_range([x |-> x, rng |-> state], 2, Len(x))

-----------------------------------------------------------------------------
(* The input tables *)

\* Rows beyond quota * N_LISTS that a sufficient group may hold.
MaxExtra == 1

\* Rows that a category without a size may hold.
MaxUndeclared == 1

MonoCategories == {c \in 1..Len(Categories) : Categories[c].scc = ""}
DiCategories == {c \in 1..Len(Categories) : Categories[c].scc # ""}
CategoryKey(c) == proc_file_key(RowOf(c, 1))
Sized == {c \in 1..Len(Categories) : quota(CategoryKey(c)) > 0}

\* An input: every sized category holds quota * N_LISTS + extra rows, but
\* the category `vary`, which is one row short (shortfall "one") or absent
\* from its table (shortfall "all"); every category without a size holds
\* `undecl` rows; with `dup` the last row of the first category repeats its
\* first row.  The input that is not `full` is two tables without rows.
Inputs ==
    {inp \in [vary : Sized, shortfall : {"none", "one", "all"},
              extra : 0..MaxExtra, undecl : 0..MaxUndeclared,
              dup : BOOLEAN, full : BOOLEAN] :
        /\ inp.shortfall = "none" => inp.vary = 1
        /\ inp.shortfall # "none" =>
                inp.extra = 0 /\ inp.undecl = 0 /\ ~inp.dup /\ inp.full
        /\ ~inp.full => inp.extra = 0 /\ inp.undecl = 0 /\ ~inp.dup}

PoolSize(inp, c) ==
    LET size == quota(CategoryKey(c))
    IN  IF ~inp.full THEN 0
        ELSE IF size = 0 THEN inp.undecl
        ELSE IF c = inp.vary /\ inp.shortfall = "all" THEN 0
        ELSE IF c = inp.vary /\ inp.shortfall = "one"
             THEN size * N_LISTS - 1
        ELSE size * N_LISTS + inp.extra

\* The rows of a category.
PoolRows(inp, c) ==
    LET n == PoolSize(inp, c)
    IN  [k \in 1..n |->
            RowOf(c, IF inp.dup /\ c = inp.vary /\ k = n THEN 1 ELSE k)]

\* The rows of a table, category after category.
TableRows(inp, cats) ==
    Concat([c \in 1..Len(Categories) |->
                IF c \in cats THEN PoolRows(inp, c) ELSE <<>>])

MONOSYLLABLES(inp) == TableRows(inp, MonoCategories)
DISYLLABLES(inp) == TableRows(inp, DiCategories)

-----------------------------------------------------------------------------
(* stratify.py: main *)

\* The value of `row` before a row was read.
NoRow == 0

\* row.keys(): the columns of the header of the input tables.
row_keys(r) == COLUMNS

NoFailure == [exception |-> "", shape |-> "", number |-> 0]

\* assert cond, (shape, number) and assert cond, number
AssertionError(key, number) ==
    [exception |-> "AssertionError", shape |-> key, number |-> number]

NameError == [exception |-> "NameError", shape |-> "", number |-> 0]

NoFile == [exists |-> FALSE, header |-> <<>>, rows |-> <<>>]

\* The file after open(path, "w"), writeheader() and writerows(rows).
WrittenFile(fieldnames, rows) ==
    [exists |-> TRUE, header |-> fieldnames, rows |-> rows]

\* by_shape after `for shape, row in _proc_file(path):
\* by_shape[shape].append(row)` over the rows of one table: the groups keep
\* their places and grow, and the keys seen for the first time follow in the
\* order in which the table shows them.
group_rows(by, rows) ==
    LET old == {by[g].shape : g \in 1..Len(by)}
        new == {proc_file_key(rows[i]) : i \in 1..Len(rows)} \ old
        \* each new key with the place of its first row
        firsts == {<<CHOOSE i \in 1..Len(rows) :
                        /\ proc_file_key(rows[i]) = k
                        /\ \A j \in 1..(i - 1) : proc_file_key(rows[j]) # k,
                     k>> : k \in new}
        of(k) == SelectSeq(rows, LAMBDA r : proc_file_key(r) = k)
    IN  [g \in 1..Len(by) |->
            [shape |-> by[g].shape,
             entries |-> by[g].entries \o of(by[g].shape)]]
        \o [n \in 1..Cardinality(new) |->
            LET f == CHOOSE f2 \in firsts :
                        Cardinality({f3 \in firsts : f3[1] < f2[1]}) = n - 1
            IN  [shape |-> f[2], entries |-> of(f[2])]]

last_row(old, rows) == IF rows = <<>> THEN old ELSE rows[Len(rows)]

\* assert len(elist) >= size * N_LISTS
pool_sufficient(entries, size) == Len(entries) >= size * N_LISTS

\* The assertion of the list length, dropped.
list_complete_unchecked(lst) == TRUE

\* assert len(lst) == 60
list_complete(lst) == Len(lst) = 60

InitStratify ==
    /\ GenerateIdle
    /\ input \in Inputs
    /\ run = 1
    /\ prev = [files |-> <<>>, failure |-> NoFailure]
    /\ spc = "start"
    /\ rng = Entropy(1)
    /\ row = NoRow
    /\ by_shape = <<>>
    /\ gnext = 0
    /\ shape = ""
    /\ elist = <<>>
    /\ lsts = <<>>
    /\ lnext = 0
    /\ files = [i \in 1..N_LISTS |-> NoFile]
    /\ failure = NoFailure

\* random.seed(SEED); lsts = [[] for _ in range(N_LISTS)]; by_shape = {}
Seed ==
    /\ spc = "start"
    /\ rng' = random_seed(rng)
    /\ lsts' = [i \in 1..N_LISTS |-> <<>>]
    /\ by_shape' = <<>>
    /\ spc' = "read_mono"
    /\ UNCHANGED <<input, run, prev, row, gnext, shape, elist, lnext, files,
                   failure>>
    /\ UNCHANGED gvars

\* for shape, row in _proc_file(MONOSYLLABLES): by_shape[shape].append(row)
ReadMonosyllables ==
    /\ spc = "read_mono"
    /\ by_shape' = group_rows(by_shape, MONOSYLLABLES(input))
    /\ row' = last_row(row, MONOSYLLABLES(input))
    /\ spc' = "read_di"
    /\ UNCHANGED <<input, run, prev, rng, gnext, shape, elist, lsts, lnext,
                   files, failure>>
    /\ UNCHANGED gvars

\* for shape, row in _proc_file(DISYLLABLES): by_shape[shape].append(row)
ReadDisyllables ==
    /\ spc = "read_di"
    /\ by_shape' = group_rows(by_shape, DISYLLABLES(input))
    /\ row' = last_row(row, DISYLLABLES(input))
    /\ gnext' = 1
    /\ lnext' = 1
    /\ spc' = IF by_shape' = <<>> THEN "shuffle" ELSE "groups"
    /\ UNCHANGED <<input, run, prev, rng, shape, elist, lsts, files,
                   failure>>
    /\ UNCHANGED gvars

\* Where main goes on after the group at gnext.
AfterGroup == IF gnext = Len(by_shape) THEN "shuffle" ELSE "groups"

\* One iteration of `for shape, entries in by_shape.items()` that ends in
\* the `else: continue` of the chain of sizes.
GroupSkipped ==
    /\ spc = "groups"
    /\ quota(by_shape[gnext].shape) = 0
    /\ shape' = by_shape[gnext].shape
    /\ elist' = by_shape[gnext].entries
    /\ gnext' = gnext + 1
    /\ spc' = AfterGroup
    /\ UNCHANGED <<input, run, prev, rng, row, by_shape, lsts, lnext, files,
                   failure>>
    /\ UNCHANGED gvars

\* One iteration in which the assertion of the pool size fails.
GroupTooSmall ==
    /\ spc = "groups"
    /\ quota(by_shape[gnext].shape) > 0
    /\ ~pool_sufficient(by_shape[gnext].entries,
                        quota(by_shape[gnext].shape))
    /\ shape' = by_shape[gnext].shape
    /\ elist' = by_shape[gnext].entries
    /\ failure' = AssertionError(by_shape[gnext].shape,
                                 Len(by_shape[gnext].entries))
    /\ spc' = "aborted"
    /\ UNCHANGED <<input, run, prev, rng, row, by_shape, gnext, lsts, lnext,
                   files>>
    /\ UNCHANGED gvars

\* One iteration that shuffles the group and deals its chunks to the lists.
GroupDealt ==
    /\ spc = "groups"
    /\ quota(by_shape[gnext].shape) > 0
    /\ pool_sufficient(by_shape[gnext].entries, quota(by_shape[gnext].shape))
    /\ LET size == quota(by_shape[gnext].shape)
           shuffled == random_shuffle(by_shape[gnext].entries, rng)
           dealt == chunks_of(shuffled.x, size, N_LISTS)
       IN  /\ elist' = shuffled.x
           /\ rng' = shuffled.rng
           /\ lsts' = [i \in 1..N_LISTS |-> lsts[i] \o dealt[i]]
    /\ shape' = by_shape[gnext].shape
    /\ gnext' = gnext + 1
    /\ spc' = AfterGroup
    /\ UNCHANGED <<input, run, prev, row, by_shape, lnext, files, failure>>
    /\ UNCHANGED gvars

\* One iteration of `for lst in lsts: random.shuffle(lst)`.
ListShuffled ==
    /\ spc = "shuffle"
    /\ LET shuffled == random_shuffle(lsts[lnext], rng)
       IN  /\ lsts' = [lsts EXCEPT ![lnext] = shuffled.x]
           /\ rng' = shuffled.rng
    /\ lnext' = IF lnext = N_LISTS THEN 1 ELSE lnext + 1
    /\ spc' = IF lnext = N_LISTS THEN "write" ELSE "shuffle"
    /\ UNCHANGED <<input, run, prev, row, by_shape, gnext, shape, elist,
                   files, failure>>
    /\ UNCHANGED gvars

\* One iteration of the writing loop when no row was ever read: the file is
\* opened, and `row.keys()` fails because `row` is not bound.
WriteUnbound ==
    /\ spc = "write"
    /\ row = NoRow
    /\ files' = [files EXCEPT ![lnext] = WrittenFile(<<>>, <<>>)]
    /\ failure' = NameError
    /\ spc' = "aborted"
    /\ UNCHANGED <<input, run, prev, rng, row, by_shape, gnext, shape, elist,
                   lsts, lnext>>
    /\ UNCHANGED gvars

\* One iteration of the writing loop in which the assertion of the length
\* fails: the file is opened and holds the header.
WriteIncomplete ==
    /\ spc = "write"
    /\ row # NoRow
    /\ ~list_complete(lsts[lnext])
    /\ files' = [files EXCEPT ![lnext] = WrittenFile(row_keys(row), <<>>)]
    /\ failure' = AssertionError("", Len(lsts[lnext]))
    /\ spc' = "aborted"
    /\ UNCHANGED <<input, run, prev, rng, row, by_shape, gnext, shape, elist,
                   lsts, lnext>>
    /\ UNCHANGED gvars

\* One iteration of the writing loop that writes the header and the list.
ListWritten ==
    /\ spc = "write"
    /\ row # NoRow
    /\ list_complete(lsts[lnext])
    /\ files' = [files EXCEPT ![lnext] = WrittenFile(row_keys(row), lsts[lnext])]
    /\ lnext' = IF lnext = N_LISTS THEN lnext ELSE lnext + 1
    /\ spc' = IF lnext = N_LISTS THEN "done" ELSE "write"
    /\ UNCHANGED <<input, run, prev, rng, row, by_shape, gnext, shape, elist,
                   lsts, failure>>
    /\ UNCHANGED gvars

\* The program is started a second time on the same two tables.  The files
\* the first run wrote are still on disk; everything else starts afresh.
RunAgain ==
    /\ spc \in {"done", "aborted"}
    /\ run = 1
    /\ run' = 2
    /\ prev' = [files |-> files, failure |-> failure]
    /\ spc' = "start"
    /\ rng' = Entropy(2)
    /\ row' = NoRow
    /\ by_shape' = <<>>
    /\ gnext' = 0
    /\ shape' = ""
    /\ elist' = <<>>
    /\ lsts' = <<>>
    /\ lnext' = 0
    /\ failure' = NoFailure
    /\ UNCHANGED <<input, files>>
    /\ UNCHANGED gvars

NextStratify ==
    \/ Seed
    \/ ReadMonosyllables
    \/ ReadDisyllables
    \/ GroupSkipped
    \/ GroupTooSmall
    \/ GroupDealt
    \/ ListShuffled
    \/ WriteUnbound
    \/ WriteIncomplete
    \/ ListWritten
    \/ RunAgain

SpecStratify == InitStratify /\ [][NextStratify]_vars

-----------------------------------------------------------------------------
(* Properties of stratify.py *)

\* The sizes the documentation of the sampling declares, key by key.
DeclaredQuota ==
    << <<"CVC", 5>>, <<"sCVC", 4>>, <<"CwVC", 4>>, <<"TRVC", 2>>,
       <<"TlVC", 5>>, <<"NCVC", 5>>, <<"CNVC", 5>>,
       <<"CVC.CVC, +OVA", 5>>, <<"CVC.CVC, +NPA", 4>>,
       <<"TRVC.CVC, +OVA", 3>>, <<"TRVC.CVC, +NPA", 3>>,
       <<"CVC.CVC, -OVA", 4>>, <<"CVC.CVC, -NPA", 4>>,
       <<"TlVC.CVC, -OVA", 4>>, <<"TlVC.CVC, -NPA", 3>> >>

DeclaredKeys == {DeclaredQuota[d][1] : d \in 1..Len(DeclaredQuota)}

\* The number of rows of a list that have the key.
CountKey(lst, key) ==
    Cardinality({k \in 1..Len(lst) : proc_file_key(lst[k]) = key})

IsMonosyllable(r) == row_get(r, "syllable.contact.code") = ""

Elements(lst) == {lst[k] : k \in 1..Len(lst)}

\* No row occurs twice in a list or in two of the lists.
Disjoint(lists) ==
    /\ \A i \in 1..Len(lists) : Cardinality(Elements(lists[i])) = Len(lists[i])
    /\ \A i, j \in 1..Len(lists) :
            i < j => Elements(lists[i]) \cap Elements(lists[j]) = {}

\* C1: when main has run to its end, every output list holds, for each of
\* the 15 declared keys, exactly the declared number of rows, and no row of
\* any other key.
C1_QuotasExact ==
    spc = "done" =>
        \A i \in 1..N_LISTS :
            /\ \A d \in 1..Len(DeclaredQuota) :
                CountKey(files[i].rows, DeclaredQuota[d][1])
                    = DeclaredQuota[d][2]
            /\ \A r \in Elements(files[i].rows) :
                proc_file_key(r) \in DeclaredKeys

\* A run has ended on tables that hold spare rows and rows of keys without
\* a size.
C1_Witness ==
    /\ spc = "done"
    /\ input.undecl > 0
    /\ input.extra > 0
    /\ Len(files[N_LISTS].rows) > 0

\* No list was shuffled since the last group was dealt, so that the chunks
\* are still the tails of the lists.
JustDealt ==
    /\ spc \in {"groups", "shuffle"}
    /\ lnext = 1
    /\ gnext > 1
    /\ quota(shape) > 0

\* C2: when the rows of the input differ pairwise, no row is twice in a list
\* or in two lists, in memory and in the files; and when a group has been
\* dealt, list i ends with the slice [(i - 1) * size, i * size) of the
\* shuffled group, and the rows of the group from position size * N_LISTS on
\* are in no list.
C2_NoOverlap ==
    ~input.dup =>
        /\ Disjoint(lsts)
        /\ Disjoint([i \in 1..N_LISTS |-> files[i].rows])
        /\ JustDealt =>
            LET size == quota(shape)
            IN  /\ \A i \in 1..N_LISTS :
                    SubSeq(lsts[i], Len(lsts[i]) - size + 1, Len(lsts[i]))
                        = SubSeq(elist, (i - 1) * size + 1, i * size)
                /\ \A k \in (size * N_LISTS + 1)..Len(elist) :
                    \A i \in 1..N_LISTS : elist[k] \notin Elements(lsts[i])

\* A group with spare rows has been dealt, and a run on such tables has
\* written its last list.
C2_Witness ==
    /\ ~input.dup
    /\ input.extra > 0
    /\ spc = "done"
    /\ quota(shape) > 0
    /\ Len(elist) > quota(shape) * N_LISTS
    /\ Len(files[N_LISTS].rows) > 0

\* C3: every output file that holds rows holds exactly 60, 30 of them
\* monosyllables and 30 disyllables.
C3_ListsOfSixty ==
    \A i \in 1..N_LISTS :
        files[i].rows # <<>> =>
            /\ Len(files[i].rows) = 60
            /\ Cardinality({k \in 1..60 : IsMonosyllable(files[i].rows[k])})
                = 30
            /\ Cardinality({k \in 1..60 : ~IsMonosyllable(files[i].rows[k])})
                = 30

\* The sixteenth list has been written.
C3_Witness ==
    /\ spc = "done"
    /\ run = 1
    /\ files[N_LISTS].exists
    /\ Len(files[N_LISTS].rows) = 60

\* C4: on tables that hold rows, a run that has ended has failed whenever a
\* declared category holds fewer than size * N_LISTS rows, and the failure
\* names that category and the number of its rows; and a group of exactly
\* size * N_LISTS rows is dealt whole, every row to a list.
C4_ShortPoolNamed ==
    /\ (input.full /\ spc \in {"done", "aborted"}) =>
        \A c \in Sized :
            PoolSize(input, c) < quota(CategoryKey(c)) * N_LISTS =>
                /\ spc = "aborted"
                /\ failure.exception = "AssertionError"
                /\ failure.shape = CategoryKey(c)
                /\ failure.number = PoolSize(input, c)
    /\ (JustDealt /\ Len(elist) = quota(shape) * N_LISTS) =>
        \A k \in 1..Len(elist) :
            \E i \in 1..N_LISTS : elist[k] \in Elements(lsts[i])

\* C5: a second run on the same tables ends as the first did, with the same
\* rows in the same order in every file; and in both runs the groups of
\* monosyllables come before the groups of disyllables.
C5_SameOutputTwice ==
    /\ (run = 2 /\ spc \in {"done", "aborted"}) =>
        /\ files = prev.files
        /\ failure = prev.failure
    /\ \A g, h \in 1..Len(by_shape) :
        (g < h /\ IsMonosyllable(by_shape[h].entries[1]))
            => IsMonosyllable(by_shape[g].entries[1])

\* The second run has written its last list.
C5_Witness ==
    /\ run = 2
    /\ spc = "done"
    /\ Len(files[N_LISTS].rows) > 0
    /\ files = prev.files

====
